---- MODULE Spec2Model ----
(***************************************************************************)
(* midi_synth (src/main.rs): the tempo helper, the tick-to-seconds         *)
(* conversion and the two passes of main over the tracks of a Standard     *)
(* MIDI File.                                                              *)
(*                                                                         *)
(* Numbers.  Ticks are u32 in the program; the model keeps the modular     *)
(* arithmetic but with TickBits bits, so that a wrap-around is within      *)
(* reach of a few events.  Times and volumes are f64 in the program; the   *)
(* model computes them as exact rationals (records num/den in lowest       *)
(* terms), so f64 rounding is abstracted away.                             *)
(***************************************************************************)
EXTENDS Integers, Sequences, FiniteSets, Bags, TLC

\* ------------------------------------------------------------------ bounds
TickBits == 2
NumTracks == 2
MaxEvents == 2
MaxTempoEvents == 3

TickMod == 2 ^ TickBits
Ticks == 0 .. (TickMod - 1)

\* ------------------------------------------------------------- input sets
Deltas == {0, 1, TickMod - 1}
FileTempos == {400000}
HelperTempos == {400000, 600000}
HelperTicks == {0, 1, TickMod - 1}
Keys == {60}
TpqnValues == {2}

Events ==
    {[kind |-> "Tempo", value |-> t] : t \in FileTempos}
    \cup {[kind |-> "NoteOn", key |-> k, velocity |-> v] : k \in Keys, v \in {0, 127}}
    \cup {[kind |-> "NoteOff", key |-> k, velocity |-> 64] : k \in Keys}

TrackEvents == [delta_time : Deltas, event : Events]

TracksUpTo(n) == UNION {[1 .. k -> TrackEvents] : k \in 0 .. n}

RECURSIVE TrackLists(_, _)
TrackLists(n, budget) ==
    IF n = 0 THEN {<<>>}
    ELSE UNION {{<<t>> \o rest : rest \in TrackLists(n - 1, budget - Len(t))} :
                t \in TracksUpTo(budget)}

TimeScales ==
    {[scale |-> "TicksPerQuarterNote", t |-> q] : q \in TpqnValues}
    \cup {[scale |-> "SMPTECompatible"]}

\* ------------------------------------------------------------- rationals
RECURSIVE Gcd(_, _)
Gcd(a, b) == IF b = 0 THEN a ELSE Gcd(b, a % b)

Rat(n, d) == LET g == Gcd(n, d) IN [num |-> n \div g, den |-> d \div g]
RatZero == [num |-> 0, den |-> 1]
RatAdd(a, b) == Rat(a.num * b.den + b.num * a.den, a.den * b.den)
RatLeq(a, b) == a.num * b.den <= b.num * a.den
RatLess(a, b) == a.num * b.den < b.num * a.den

\* ------------------------------------------------------------ TempoHelper
DefaultTempo == 500000

TupleLeq(a, b) == a[1] < b[1] \/ (a[1] = b[1] /\ a[2] <= b[2])

RECURSIVE InsertSorted(_, _)
InsertSorted(s, x) ==
    IF s = <<>> THEN <<x>>
    ELSE IF TupleLeq(Head(s), x) THEN <<Head(s)>> \o InsertSorted(Tail(s), x)
    ELSE <<x>> \o s

RECURSIVE sort(_)
sort(s) == IF s = <<>> THEN <<>> ELSE InsertSorted(sort(Tail(s)), Head(s))

\* reverse with a fault: the sorted data is left in ascending order.
reverseSkipped(s) == s

reverse(s) == [i \in 1 .. Len(s) |-> s[Len(s) + 1 - i]]

RECURSIVE ScanTempo(_, _, _)
ScanTempo(d, i, tick) ==
    IF i > Len(d) THEN DefaultTempo
    ELSE IF tick >= d[i][1] THEN d[i][2]
    ELSE ScanTempo(d, i + 1, tick)

new_tempo(d, tick, tempo) == Append(d, <<tick, tempo>>)

get_tempo(d, tick) ==
    LET s == reverse(sort(d))
    IN [data |-> s, tempo |-> ScanTempo(s, 1, tick)]

\* -------------------------------------------------------------- calc_time
calc_time(ticks, tempo, ticks_per_quarter_note) ==
    Rat(tempo * ticks, ticks_per_quarter_note * 1000000)

\* ------------------------------------------------- u32 tick accumulation
\* at_tick += delta: the sum modulo 2^TickBits, and whether it overflowed
\* (a panic when the build checks overflow, a silent wrap otherwise).
AddTick(at, delta) ==
    [value |-> (at + delta) % TickMod, overflow |-> at + delta >= TickMod]

\* --------------------------------------- SequenceHelper (synthesizer crate)
SequenceHelperNew == [time |-> RatZero, sequence |-> <<>>]

reset(sb) == [sb EXCEPT !.time = RatZero]

time_forward(sb, dt) == [sb EXCEPT !.time = RatAdd(@, dt)]

start_note(sb, key, chan, volumes) ==
    [sb EXCEPT !.sequence =
        Append(@, [kind |-> "StartNote", time |-> sb.time, chan |-> chan,
                   key |-> key, volumes |-> volumes])]

stop_note(sb, key, chan) ==
    [sb EXCEPT !.sequence =
        Append(@, [kind |-> "StopNote", time |-> sb.time, chan |-> chan,
                   key |-> key])]

\* Volume::new: Ok for a value in [0,1], Err otherwise.
VolumeNew(x) ==
    [ok |-> RatLeq(RatZero, x) /\ RatLeq(x, [num |-> 1, den |-> 1]), value |-> x]

\* ------------------------------------------------------ main: per event
\* VelocityVolume with a fault: the velocity is divided by 127.
VelocityVolume127(velocity) == Rat(velocity, 127)

\* f64::from(n.velocity) / 128f64
VelocityVolume(velocity) == Rat(velocity, 128)

\* EventTime with a fault: the tempo is resolved at the tick before the advance.
EventTimeOldTick(at, delta, dat, q) ==
    LET adv == AddTick(at, delta)
        g == get_tempo(dat, at)
    IN [overflow |-> adv.overflow, at_tick |-> adv.value, data |-> g.data,
        tempo |-> g.tempo, query |-> at,
        dt |-> calc_time(delta, g.tempo, q)]

\* Lines 111-116: advance the cursor, resolve the tempo, convert the delta.
EventTime(at, delta, dat, q) ==
    LET adv == AddTick(at, delta)
        g == get_tempo(dat, adv.value)
    IN [overflow |-> adv.overflow, at_tick |-> adv.value, data |-> g.data,
        tempo |-> g.tempo, query |-> adv.value,
        dt |-> calc_time(delta, g.tempo, q)]

\* NoteDispatch with a fault: a NoteOn with velocity 0 is skipped.
NoteDispatchSkipZero(sb, ev) ==
    IF ev.kind = "NoteOn" THEN
        IF ev.velocity > 0 THEN
            LET vol == VolumeNew(VelocityVolume(ev.velocity))
            IN IF vol.ok
               THEN [sb |-> start_note(sb, ev.key, 0, <<vol.value>>), panic |-> FALSE]
               ELSE [sb |-> sb, panic |-> TRUE]
        ELSE [sb |-> sb, panic |-> FALSE]
    ELSE IF ev.kind = "NoteOff" THEN
        [sb |-> stop_note(sb, ev.key, 0), panic |-> FALSE]
    ELSE [sb |-> sb, panic |-> FALSE]

\* Lines 117-133: the match on the event.  panic: an unwrap that failed.
NoteDispatch(sb, ev) ==
    IF ev.kind = "NoteOn" THEN
        IF ev.velocity > 0 THEN
            LET vol == VolumeNew(VelocityVolume(ev.velocity))
            IN IF vol.ok
               THEN [sb |-> start_note(sb, ev.key, 0, <<vol.value>>), panic |-> FALSE]
               ELSE [sb |-> sb, panic |-> TRUE]
        ELSE [sb |-> stop_note(sb, ev.key, 0), panic |-> FALSE]
    ELSE IF ev.kind = "NoteOff" THEN
        [sb |-> stop_note(sb, ev.key, 0), panic |-> FALSE]
    ELSE [sb |-> sb, panic |-> FALSE]

\* TrackOrder with a fault: the tracks are visited last to first.
TrackOrderReversed(k) == NumTracks + 1 - k

\* The k-th iteration of `for track in &smf.tracks` visits track k.
TrackOrder(k) == k

\* ------------------------------------------------------------------ state
VARIABLES
    smf,            \* the imported file: time_division and tracks
    overflowChecks, \* whether the build panics on integer overflow
    pc,             \* where main is: header, discover, sequence, synth, write, done
    panicked,       \* main ended in a panic
    tpqn,           \* ticks per quarter note of the header
    trk,            \* iteration of the loop over the tracks
    idx,            \* next event of the track (0: the track is not begun)
    at_tick,        \* the loop's tick cursor
    data,           \* tempo_helper.data
    seq_builder,    \* the SequenceHelper: current time and sequence
    outputCreated,  \* the output file exists
    recorded,       \* history: the new_tempo calls, in call order
    reads,          \* history: number of get_tempo calls
    lastQuery,      \* history: tick of the last get_tempo call since the last
                    \* new_tempo call (-1: none)
    lastResult,     \* history: what it returned
    exactTick,      \* history: the sum of the track's deltas so far, unbounded
    origin          \* history: per command, <<track, event index>> it came from

vars == <<smf, overflowChecks, pc, panicked, tpqn, trk, idx, at_tick, data,
          seq_builder, outputCreated, recorded, reads, lastQuery, lastResult,
          exactTick, origin>>

inputVars == <<smf, overflowChecks>>
loopVars == <<trk, idx, at_tick, exactTick>>
tempoVars == <<data, recorded, reads, lastQuery, lastResult>>
seqVars == <<seq_builder, origin>>

InitLocals ==
    /\ pc = "header"
    /\ panicked = FALSE
    /\ tpqn = 0
    /\ trk = 0
    /\ idx = 0
    /\ at_tick = 0
    /\ data = <<>>
    /\ seq_builder = SequenceHelperNew
    /\ outputCreated = FALSE
    /\ recorded = <<>>
    /\ reads = 0
    /\ lastQuery = -1
    /\ lastResult = 0
    /\ exactTick = 0
    /\ origin = <<>>

Init ==
    /\ smf \in [time_division : TimeScales, tracks : TrackLists(NumTracks, MaxEvents)]
    /\ overflowChecks \in BOOLEAN
    /\ InitLocals

Panic ==
    /\ panicked' = TRUE
    /\ UNCHANGED <<smf, overflowChecks, pc, tpqn, trk, idx, at_tick, data,
                   seq_builder, outputCreated, recorded, reads, lastQuery,
                   lastResult, exactTick, origin>>

\* CheckTimeDivision with a fault: a timecode-based division goes on with a
\* made-up resolution.
CheckTimeDivisionAnyScale ==
    /\ pc = "header" /\ ~panicked
    /\ tpqn' = IF smf.time_division.scale = "TicksPerQuarterNote"
               THEN smf.time_division.t ELSE 2
    /\ pc' = "discover"
    /\ trk' = 1
    /\ idx' = 0
    /\ data' = <<>>
    /\ UNCHANGED <<inputVars, panicked, at_tick, exactTick, seq_builder,
                   origin, outputCreated, recorded, reads, lastQuery,
                   lastResult>>

\* Lines 83-89: the header's time division, then TempoHelper::new.
CheckTimeDivision ==
    /\ pc = "header" /\ ~panicked
    /\ IF smf.time_division.scale = "TicksPerQuarterNote"
       THEN /\ tpqn' = smf.time_division.t
            /\ pc' = "discover"
            /\ trk' = 1
            /\ idx' = 0
            /\ data' = <<>>
            /\ UNCHANGED <<inputVars, panicked, at_tick, exactTick, seq_builder,
                           origin, outputCreated, recorded, reads, lastQuery,
                           lastResult>>
       ELSE Panic

\* Lines 92-93: the next track of the discovery pass, at_tick = 0.
DiscoverBeginTrack ==
    /\ pc = "discover" /\ ~panicked
    /\ trk <= Len(smf.tracks) /\ idx = 0
    /\ at_tick' = 0
    /\ exactTick' = 0
    /\ IF Len(smf.tracks[trk]) = 0
       THEN trk' = trk + 1 /\ idx' = 0
       ELSE trk' = trk /\ idx' = 1
    /\ UNCHANGED <<inputVars, pc, panicked, tpqn, tempoVars, seqVars, outputCreated>>

\* DiscoverEvent with a fault: only the first track's tempo events are recorded.
DiscoverEventFirstTrack ==
    /\ pc = "discover" /\ ~panicked
    /\ trk <= Len(smf.tracks) /\ idx >= 1
    /\ LET te == smf.tracks[trk][idx]
           adv == AddTick(at_tick, te.delta_time)
       IN IF adv.overflow /\ overflowChecks THEN Panic
          ELSE /\ at_tick' = adv.value
               /\ exactTick' = exactTick + te.delta_time
               /\ IF te.event.kind = "Tempo" /\ trk = 1
                  THEN /\ data' = new_tempo(data, adv.value, te.event.value)
                       /\ recorded' = Append(recorded, <<adv.value, te.event.value>>)
                  ELSE UNCHANGED <<data, recorded>>
               /\ IF idx = Len(smf.tracks[trk])
                  THEN trk' = trk + 1 /\ idx' = 0
                  ELSE trk' = trk /\ idx' = idx + 1
               /\ UNCHANGED <<inputVars, pc, panicked, tpqn, reads, lastQuery,
                              lastResult, seqVars, outputCreated>>

\* Lines 94-100: one event of the discovery pass.
DiscoverEvent ==
    /\ pc = "discover" /\ ~panicked
    /\ trk <= Len(smf.tracks) /\ idx >= 1
    /\ LET te == smf.tracks[trk][idx]
           adv == AddTick(at_tick, te.delta_time)
       IN IF adv.overflow /\ overflowChecks THEN Panic
          ELSE /\ at_tick' = adv.value
               /\ exactTick' = exactTick + te.delta_time
               /\ IF te.event.kind = "Tempo"
                  THEN /\ data' = new_tempo(data, adv.value, te.event.value)
                       /\ recorded' = Append(recorded, <<adv.value, te.event.value>>)
                  ELSE UNCHANGED <<data, recorded>>
               /\ IF idx = Len(smf.tracks[trk])
                  THEN trk' = trk + 1 /\ idx' = 0
                  ELSE trk' = trk /\ idx' = idx + 1
               /\ UNCHANGED <<inputVars, pc, panicked, tpqn, reads, lastQuery,
                              lastResult, seqVars, outputCreated>>

\* Lines 101-104: the discovery pass is over; SequenceHelper::new.
DiscoverEnd ==
    /\ pc = "discover" /\ ~panicked
    /\ trk > Len(smf.tracks)
    /\ pc' = "sequence"
    /\ trk' = 1
    /\ idx' = 0
    /\ seq_builder' = SequenceHelperNew
    /\ origin' = <<>>
    /\ UNCHANGED <<inputVars, panicked, tpqn, at_tick, exactTick, tempoVars,
                   outputCreated>>

\* SeqBeginTrack with a fault: seq_builder.reset() is not called.
SeqBeginTrackNoReset ==
    /\ pc = "sequence" /\ ~panicked
    /\ trk <= Len(smf.tracks) /\ idx = 0
    /\ at_tick' = 0
    /\ exactTick' = 0
    /\ IF Len(smf.tracks[TrackOrder(trk)]) = 0
       THEN trk' = trk + 1 /\ idx' = 0
       ELSE trk' = trk /\ idx' = 1
    /\ UNCHANGED <<inputVars, pc, panicked, tpqn, tempoVars, seqVars, outputCreated>>

\* Lines 107-109: the next track of the sequencing pass.
SeqBeginTrack ==
    /\ pc = "sequence" /\ ~panicked
    /\ trk <= Len(smf.tracks) /\ idx = 0
    /\ seq_builder' = reset(seq_builder)
    /\ at_tick' = 0
    /\ exactTick' = 0
    /\ IF Len(smf.tracks[TrackOrder(trk)]) = 0
       THEN trk' = trk + 1 /\ idx' = 0
       ELSE trk' = trk /\ idx' = 1
    /\ UNCHANGED <<inputVars, pc, panicked, tpqn, tempoVars, origin, outputCreated>>

\* Lines 110-134: one event of the sequencing pass.
SeqEvent ==
    /\ pc = "sequence" /\ ~panicked
    /\ trk <= Len(smf.tracks) /\ idx >= 1
    /\ LET te == smf.tracks[TrackOrder(trk)][idx]
           et == EventTime(at_tick, te.delta_time, data, tpqn)
           out == NoteDispatch(time_forward(seq_builder, et.dt), te.event)
       IN IF et.overflow /\ overflowChecks THEN Panic
          ELSE /\ at_tick' = et.at_tick
               /\ exactTick' = exactTick + te.delta_time
               /\ data' = et.data
               /\ reads' = reads + 1
               /\ lastQuery' = et.query
               /\ lastResult' = et.tempo
               /\ seq_builder' = out.sb
               /\ panicked' = out.panic
               /\ origin' = IF Len(out.sb.sequence) > Len(seq_builder.sequence)
                            THEN Append(origin, <<TrackOrder(trk), idx>>)
                            ELSE origin
               /\ IF idx = Len(smf.tracks[TrackOrder(trk)])
                  THEN trk' = trk + 1 /\ idx' = 0
                  ELSE trk' = trk /\ idx' = idx + 1
               /\ UNCHANGED <<inputVars, pc, tpqn, recorded, outputCreated>>

\* Lines 135-160: the sequencing pass is over; the Synthesizer is built.
SeqEnd ==
    /\ pc = "sequence" /\ ~panicked
    /\ trk > Len(smf.tracks)
    /\ pc' = "synth"
    /\ UNCHANGED <<inputVars, panicked, tpqn, loopVars, tempoVars, seqVars,
                   outputCreated>>

\* Line 163: synth.run().unwrap(), the synthesizer crate's result.
RunSynth ==
    /\ pc = "synth" /\ ~panicked
    /\ \E ok \in BOOLEAN :
        /\ pc' = IF ok THEN "write" ELSE pc
        /\ panicked' = ~ok
    /\ UNCHANGED <<inputVars, tpqn, loopVars, tempoVars, seqVars, outputCreated>>

\* Lines 166-173: File::create(output_path).unwrap(), wave.write(..).unwrap().
WriteWave ==
    /\ pc = "write" /\ ~panicked
    /\ \E r \in {"create failed", "write failed", "ok"} :
        /\ outputCreated' = (r # "create failed")
        /\ pc' = IF r = "ok" THEN "done" ELSE pc
        /\ panicked' = (r # "ok")
    /\ UNCHANGED <<inputVars, tpqn, loopVars, tempoVars, seqVars>>

Next ==
    \/ CheckTimeDivision
    \/ DiscoverBeginTrack
    \/ DiscoverEvent
    \/ DiscoverEnd
    \/ SeqBeginTrack
    \/ SeqEvent
    \/ SeqEnd
    \/ RunSynth
    \/ WriteWave

Spec == Init /\ [][Next]_vars

\* ------------------------------------------- the TempoHelper on its own
\* Any sequence of new_tempo and get_tempo calls on one TempoHelper.
InitHelper ==
    /\ smf = [time_division |-> [scale |-> "TicksPerQuarterNote", t |-> 2],
              tracks |-> <<>>]
    /\ overflowChecks = FALSE
    /\ InitLocals

HelperNewTempo ==
    /\ Len(recorded) < MaxTempoEvents
    /\ \E tick \in HelperTicks, tempo \in HelperTempos :
        /\ data' = new_tempo(data, tick, tempo)
        /\ recorded' = Append(recorded, <<tick, tempo>>)
    /\ lastQuery' = -1
    /\ lastResult' = 0
    /\ UNCHANGED <<inputVars, pc, panicked, tpqn, loopVars, reads, seqVars,
                   outputCreated>>

HelperGetTempo ==
    /\ \E tick \in Ticks :
        LET g == get_tempo(data, tick)
        IN /\ data' = g.data
           /\ lastQuery' = tick
           /\ lastResult' = g.tempo
    /\ reads' = 1
    /\ UNCHANGED <<inputVars, pc, panicked, tpqn, loopVars, recorded, seqVars,
                   outputCreated>>

NextHelper == HelperNewTempo \/ HelperGetTempo

SpecHelper == InitHelper /\ [][NextHelper]_vars

\* ======================================================= properties
Max(S) == CHOOSE x \in S : \A y \in S : y <= x

\* The recorded events that apply at tick t, and the latest of them.
Applicable(rec, t) == {i \in 1 .. Len(rec) : rec[i][1] <= t}
Latest(rec, t) ==
    {i \in Applicable(rec, t) : \A j \in Applicable(rec, t) : rec[j][1] <= rec[i][1]}

\* The tempo in effect at tick t; of several events at the latest tick, the
\* greatest tempo.
Resolve(rec, t) ==
    IF Applicable(rec, t) = {} THEN 500000
    ELSE Max({rec[i][2] : i \in Latest(rec, t)})

Commands == seq_builder.sequence
EventAt(o) == smf.tracks[o[1]][o[2]].event
InPass2 == pc \in {"sequence", "synth", "write", "done"}

\* A step of SeqEvent that did not panic.
SeqEventStep ==
    /\ pc = "sequence" /\ ~panicked /\ ~panicked'
    /\ trk <= Len(smf.tracks) /\ idx >= 1
    /\ <<trk, idx>> # <<trk', idx'>>

\* The time of the n-th event of a track, from the track's deltas and the
\* tempo events alone, starting at zero.
RECURSIVE TrackTime(_, _, _, _)
TrackTime(track, n, rec, q) ==
    IF n = 0 THEN [num |-> 0, den |-> 1]
    ELSE LET cursor == LET sum[k \in 0 .. n] ==
                               IF k = 0 THEN 0
                               ELSE (sum[k - 1] + track[k].delta_time) % TickMod
                       IN sum[n]
             dt == Rat(track[n].delta_time * Resolve(rec, cursor), q * 1000000)
         IN RatAdd(TrackTime(track, n - 1, rec, q), dt)

\* The tempo events of the file in discovery order, each at its track's cursor.
RECURSIVE TrackTempoEvents(_, _, _)
TrackTempoEvents(track, n, cursor) ==
    IF n > Len(track) THEN <<>>
    ELSE LET c == (cursor + track[n].delta_time) % TickMod
         IN (IF track[n].event.kind = "Tempo"
             THEN <<(<<c, track[n].event.value>>)>> ELSE <<>>)
            \o TrackTempoEvents(track, n + 1, c)

RECURSIVE FileTempoEvents(_, _)
FileTempoEvents(tracks, k) ==
    IF k > Len(tracks) THEN <<>>
    ELSE TrackTempoEvents(tracks[k], 1, 0) \o FileTempoEvents(tracks, k + 1)

BagOfSeq(s) ==
    [x \in {s[i] : i \in DOMAIN s} |-> Cardinality({i \in DOMAIN s : s[i] = x})]

\* C1: get_tempo(t) returns the tempo of a recorded event with the greatest
\* tick <= t, and 500000 when no recorded event has tick <= t, whatever the
\* order of the new_tempo calls.
C1_LatestTempo ==
    lastQuery >= 0 =>
        IF Applicable(recorded, lastQuery) = {}
        THEN lastResult = 500000
        ELSE lastResult \in {recorded[i][2] : i \in Latest(recorded, lastQuery)}

\* A query answered from events recorded out of tick order, with a later
\* event beyond the query.
C1_Witness ==
    /\ lastQuery >= 0
    /\ Len(recorded) = 3
    /\ recorded[1][1] > recorded[2][1]
    /\ recorded[2][1] < recorded[3][1]
    /\ recorded[1][1] > lastQuery
    /\ recorded[3][1] <= lastQuery
    /\ lastResult = recorded[3][2]
    /\ lastResult # recorded[2][2]

\* C9: of several recorded events at the same tick, get_tempo returns the
\* tempo of the one recorded last.
C9_LaterRecordedWins ==
    (lastQuery >= 0 /\ Applicable(recorded, lastQuery) # {}) =>
        lastResult = recorded[Max(Latest(recorded, lastQuery))][2]

\* C2: a NoteOn with velocity 0 appends exactly one StopNote, for channel 0
\* and the event's key at the current time: what a NoteOff for that key at
\* the same place in the track appends.
C2_NoteOnZeroIsNoteOff ==
    [][(SeqEventStep
        /\ smf.tracks[trk][idx].event.kind = "NoteOn"
        /\ smf.tracks[trk][idx].event.velocity = 0)
       => LET te == smf.tracks[trk][idx]
              off == [kind |-> "NoteOff", key |-> te.event.key, velocity |-> 64]
              atOff == NoteDispatch(
                         time_forward(seq_builder,
                                      EventTime(at_tick, te.delta_time, data, tpqn).dt),
                         off).sb
          IN /\ seq_builder' = atOff
             /\ seq_builder'.sequence =
                    Append(seq_builder.sequence,
                           [kind |-> "StopNote", time |-> seq_builder'.time,
                            chan |-> 0, key |-> te.event.key])]_vars

\* A StopNote that came from a NoteOn with velocity 0, at a time after zero.
C2_Witness ==
    \E i \in 1 .. Len(Commands) :
        /\ EventAt(origin[i]).kind = "NoteOn"
        /\ EventAt(origin[i]).velocity = 0
        /\ Commands[i].kind = "StopNote"
        /\ Commands[i].time.num > 0

\* C3: every StartNote comes from a NoteOn with velocity v in 1..127 and
\* carries the one volume v/128, strictly between 0 and 1.
C3_StartNoteVolume ==
    /\ Len(origin) = Len(Commands)
    /\ \A i \in 1 .. Len(Commands) :
        Commands[i].kind = "StartNote" =>
            LET ev == EventAt(origin[i])
                vol == Commands[i].volumes[1]
            IN /\ ev.kind = "NoteOn"
               /\ ev.velocity \in 1 .. 127
               /\ Len(Commands[i].volumes) = 1
               /\ vol.num * 128 = ev.velocity * vol.den
               /\ 0 < vol.num /\ vol.num < vol.den

\* A StartNote of the greatest velocity.
C3_Witness ==
    \E i \in 1 .. Len(Commands) :
        /\ Commands[i].kind = "StartNote"
        /\ EventAt(origin[i]).velocity = 127

\* C4: the commands are in track order, and within a track in event order,
\* whatever their times.
C4_TrackOrder ==
    \A i, j \in 1 .. Len(origin) :
        i < j => \/ origin[i][1] < origin[j][1]
                 \/ (origin[i][1] = origin[j][1] /\ origin[i][2] < origin[j][2])

\* A command of the second track after a command of the first track with a
\* later time.
C4_Witness ==
    \E i, j \in 1 .. Len(Commands) :
        /\ i < j
        /\ origin[i][1] < origin[j][1]
        /\ RatLess(Commands[j].time, Commands[i].time)

\* C5: a track's replay starts at time zero; the times of a track's commands
\* never decrease; a command's time is that of its own track's deltas under
\* the recorded tempo events, counted from zero.
C5_PerTrackTime ==
    /\ (pc = "sequence" /\ idx = 1) => (seq_builder.time.num = 0 /\ at_tick = 0)
    /\ \A i, j \in 1 .. Len(Commands) :
        (i < j /\ origin[i][1] = origin[j][1]) =>
            RatLeq(Commands[i].time, Commands[j].time)
    /\ \A i \in 1 .. Len(Commands) :
        Commands[i].time =
            TrackTime(smf.tracks[origin[i][1]], origin[i][2], recorded, tpqn)

\* Commands of both tracks after time zero, the second track's first command
\* before the first track's last.
C5_Witness ==
    \E i, j \in 1 .. Len(Commands) :
        /\ origin[i][1] = 1 /\ origin[j][1] = 2
        /\ Commands[j].time.num > 0
        /\ RatLess(Commands[j].time, Commands[i].time)

\* C6: with a timecode-based (SMPTE) time division nothing is processed: no
\* tempo event is recorded, no tempo resolved, no command appended, no output
\* file created.
C6_SmpteFailsFirst ==
    smf.time_division.scale = "SMPTECompatible" =>
        /\ pc = "header"
        /\ recorded = <<>> /\ data = <<>>
        /\ reads = 0
        /\ Commands = <<>>
        /\ ~outputCreated

\* The run ended on the header of a file that has tempo and note events.
C6_Witness ==
    /\ smf.time_division.scale = "SMPTECompatible"
    /\ panicked
    /\ \E e \in {smf.tracks[1][i].event : i \in 1 .. Len(smf.tracks[1])} :
        e.kind = "Tempo"
    /\ \E e \in {smf.tracks[2][i].event : i \in 1 .. Len(smf.tracks[2])} :
        e.kind = "NoteOn"

\* C7: an event with delta d moves the cursor to T and the time by
\* d * tempo(T) / tpqn microseconds, tempo(T) the tempo in effect at T.
C7_TempoAtNewTick ==
    [][SeqEventStep
       => LET d == smf.tracks[trk][idx].delta_time
          IN /\ at_tick' = (at_tick + d) % TickMod
             /\ seq_builder'.time =
                    RatAdd(seq_builder.time,
                           Rat(d * Resolve(recorded, at_tick'), tpqn * 1000000))]_vars

\* A command of a track's first event, whose delta spans a tempo change
\* strictly inside it: the whole delta went at the new tempo.
C7_Witness ==
    \E i \in 1 .. Len(Commands) :
        LET d == smf.tracks[origin[i][1]][1].delta_time
        IN /\ origin[i][2] = 1
           /\ \E k \in 1 .. Len(recorded) : 0 < recorded[k][1] /\ recorded[k][1] < d
           /\ Resolve(recorded, 0) # Resolve(recorded, d)
           /\ Commands[i].time = Rat(d * Resolve(recorded, d), tpqn * 1000000)

\* C8: no get_tempo call before the discovery pass is over; from then on
\* the tempo helper holds exactly the tempo events of all the tracks, and
\* every command's time is its track's time under all of them.
C8_MapBuiltFirst ==
    /\ reads > 0 => InPass2
    /\ InPass2 =>
        /\ recorded = FileTempoEvents(smf.tracks, 1)
        /\ BagOfSeq(data) = BagOfSeq(recorded)
        /\ \A i \in 1 .. Len(Commands) :
            Commands[i].time =
                TrackTime(smf.tracks[origin[i][1]], origin[i][2],
                          FileTempoEvents(smf.tracks, 1), tpqn)

\* A command of the first track, which has no tempo event, at a time that the
\* second track's tempo event decided.
C8_Witness ==
    /\ InPass2
    /\ TrackTempoEvents(smf.tracks[1], 1, 0) = <<>>
    /\ \E i \in 1 .. Len(Commands) :
        /\ origin[i][1] = 1
        /\ Commands[i].time #
               TrackTime(smf.tracks[1], origin[i][2], <<>>, tpqn)

\* C10: in both passes the cursor is the exact sum of the track's deltas so
\* far: it never wraps around.
C10_CursorIsExactSum ==
    pc \in {"discover", "sequence"} => at_tick = exactTick

====
